---- MODULE Spec2Model ----
(***************************************************************************)
(* Model of the attendance dashboard (src/mini-thesis-dashboard.py).       *)
(*                                                                         *)
(* The state is Sheet1 of the Google spreadsheet (header row and data      *)
(* rows), the st.cache_data entry of load_data, the values the last script *)
(* run computed (filtered_df and the sidebar messages), the session state  *)
(* of the gate location map (last_refresh, gate_points) with the wall      *)
(* clock it is stamped from, and the callback that triggered the pending   *)
(* rerun.                                                                  *)
(*                                                                         *)
(* Text is a sequence of one-character strings.  A spreadsheet cell is a   *)
(* record [k, v]: k is the kind of content, v its payload.  The Name column*)
(* is carried through load_data verbatim and is left out of the rows.      *)
(***************************************************************************)
EXTENDS Integers, Sequences, FiniteSets, TLC

VARIABLES
    header,          \* row 1 of Sheet1: the column names
    rows,            \* the data rows of Sheet1
    archived,        \* a sheet named Attendance_<today> exists
    cache,           \* the st.cache_data entry of load_data
    filtered_df,     \* what load_data() gave the last script run
    sidebar,         \* what load_data wrote to the sidebar in the last script run
    has_inside_ids,  \* 'inside_ids' in st.session_state
    now,             \* the wall clock, in seconds
    last_refresh,    \* st.session_state.last_refresh (set: the key exists)
    gate_points,     \* st.session_state.gate_points
    appended,        \* the step just taken appended a gate point
    points_for_df,   \* gate points appended since filtered_df last changed (2: two or more)
    fetch,           \* how load_data was left in the step just taken ("none": no script run)
    callback,        \* the button callback whose rerun is pending, with its outcome
    rerun_of,        \* the callback the script run just taken followed ("none": timer)
    dirty            \* Sheet1 was modified after the last read that filled the cache

vars == << header, rows, archived, cache, filtered_df, sidebar, has_inside_ids,
           now, last_refresh, gate_points, appended, points_for_df,
           fetch, callback, rerun_of, dirty >>

(***************************************************************************)
(* Bounds of the model.                                                    *)
(***************************************************************************)
\* longest Sheet1 (data rows) in the dashboard specification Spec
MaxRows == 2
\* longest input table in the load_data specification SpecLoad
MaxTable == 3
\* last second of the wall clock
MaxClock == 7
\* most gate points held at once
MaxPoints == 2

(***************************************************************************)
(* Program constants.                                                      *)
(***************************************************************************)
DATA_CACHE_TTL_SECONDS == 6

\* timedelta(seconds=10): how far before last_refresh an entry still counts as new
NEW_ENTRY_WINDOW_SECONDS == 10

\* points older than this many seconds are removed
POINT_LIFETIME_SECONDS == 1

required_cols == << "Timestamp", "Gate No.", "Identification No.", "Name" >>

(***************************************************************************)
(* Cells.                                                                  *)
(***************************************************************************)
\* a cell holding a well-formed date text that denotes instant n
DateCell(n) == [k |-> "date", v |-> << n >>]
\* a cell holding the number n
NumCell(n) == [k |-> "num", v |-> << n >>]
\* a cell pandas reads as the float n.0 (a numeric column with gaps)
FloatCell(n) == [k |-> "float", v |-> << n >>]
\* a cell holding an infinite number ("inf", "Infinity", 1e400)
InfCell == [k |-> "inf", v |-> << >>]
\* a cell holding the text s
TextCell(s) == [k |-> "text", v |-> s]
\* an empty cell (NaN)
NanCell == [k |-> "nan", v |-> << >>]

\* text that is neither a date nor a number
Junk == << "x" >>

(***************************************************************************)
(* Text helpers.                                                           *)
(***************************************************************************)
Digit(d) == CASE d = 0 -> "0" [] d = 1 -> "1" [] d = 2 -> "2" [] d = 3 -> "3"
              [] d = 4 -> "4" [] d = 5 -> "5" [] d = 6 -> "6" [] d = 7 -> "7"
              [] d = 8 -> "8" [] d = 9 -> "9"

RECURSIVE Decimal(_)
\* str() of a natural number
Decimal(n) == IF n < 10 THEN << Digit(n) >>
              ELSE Append(Decimal(n \div 10), Digit(n % 10))

\* astype(str) of an Identification No. cell
astype_str(c) == CASE c.k = "text" -> c.v
                   [] c.k = "num" -> Decimal(c.v[1])
                   [] c.k = "float" -> Decimal(c.v[1]) \o << ".", "0" >>
                   [] c.k = "inf" -> << "i", "n", "f" >>
                   [] c.k = "nan" -> << "n", "a", "n" >>

RECURSIVE lstrip(_)
lstrip(s) == IF s # << >> /\ Head(s) = " " THEN lstrip(Tail(s)) ELSE s

RECURSIVE rstrip(_)
rstrip(s) == IF s # << >> /\ s[Len(s)] = " " THEN rstrip(SubSeq(s, 1, Len(s) - 1)) ELSE s

\* Series.str.strip()
strip(s) == rstrip(lstrip(s))

RECURSIVE rstrip_dot0(_)
\* mutant of replace_dot0: str.rstrip(".0"), which strips the characters, not the suffix
rstrip_dot0(s) == IF s # << >> /\ s[Len(s)] \in {".", "0"}
                  THEN rstrip_dot0(SubSeq(s, 1, Len(s) - 1))
                  ELSE s

\* Series.str.replace(r'\.0$', '', regex=True): one trailing ".0" removed
replace_dot0(s) == IF Len(s) >= 2 /\ s[Len(s) - 1] = "." /\ s[Len(s)] = "0"
                   THEN SubSeq(s, 1, Len(s) - 2)
                   ELSE s

\* the Identification No. handling of load_data
id_series_cleaned(c) == replace_dot0(strip(astype_str(c)))

(***************************************************************************)
(* load_data: the body of the cached function.                             *)
(***************************************************************************)
FullHeader == required_cols
NoNameHeader == << "Timestamp", "Gate No.", "Identification No." >>
BlankHeader == << >>

Cols(h) == {h[i] : i \in 1..Len(h)}

\* conn.read(worksheet="Sheet1", ttl=5): the sheet as it is now, or an exception.
\* Its own 5 s cache entry is never younger than load_data's 6 s entry and
\* st.cache_data.clear() clears both, so every execution of load_data reads
\* the sheet itself.
conn_read(raises, h, rws) == [raised |-> raises, columns |-> Cols(h), data |-> rws]

\* DataFrame.empty: no rows, or no columns
df_empty(df) == df.data = << >> \/ df.columns = {}

missing_cols(df) == {required_cols[i] : i \in 1..Len(required_cols)} \ df.columns

\* pd.to_datetime(..., errors='coerce') gives NaT for a cell that is no date
IsNaT(c) == c.k # "date"

\* the rows of df[required_cols] with their index labels
Indexed(rws) == [i \in 1..Len(rws) |-> [ts |-> rws[i].ts, gate |-> rws[i].gate,
                                         id |-> rws[i].id, src |-> i]]

\* dropna(subset=["Timestamp"])
dropna_Timestamp(irows) == SelectSeq(irows, LAMBDA r : ~IsNaT(r.ts))

\* pd.to_numeric(..., errors='coerce'): "num", "inf" or "nan"
to_numeric(c) == CASE c.k = "num" -> c
                   [] c.k = "float" -> NumCell(c.v[1])
                   [] c.k = "inf" -> InfCell
                   [] OTHER -> NanCell

\* fillna(0)
fillna0(c) == IF c.k = "nan" THEN NumCell(0) ELSE c

\* astype(int) raises on a non-finite value
astype_int_raises(irows) == \E i \in 1..Len(irows) : fillna0(to_numeric(irows[i].gate)).k = "inf"

\* one row after the three conversions
Convert(r) == [Timestamp |-> r.ts.v[1],
               Gate |-> fillna0(to_numeric(r.gate)).v[1],
               Id |-> id_series_cleaned(r.id),
               src |-> r.src]

ConvertAll(irows) == [i \in 1..Len(irows) |-> Convert(irows[i])]

RECURSIVE InsertDesc(_, _)
\* x placed behind the rows whose Timestamp is not smaller
InsertDesc(t, x) == IF t = << >> THEN << x >>
                    ELSE IF Head(t).Timestamp >= x.Timestamp
                         THEN << Head(t) >> \o InsertDesc(Tail(t), x)
                         ELSE << x >> \o t

RECURSIVE InsertAsc(_, _)
InsertAsc(t, x) == IF t = << >> THEN << x >>
                   ELSE IF Head(t).Timestamp <= x.Timestamp
                        THEN << Head(t) >> \o InsertAsc(Tail(t), x)
                        ELSE << x >> \o t

RECURSIVE sort_values_asc(_)
\* mutant of sort_values_desc: ascending=False forgotten
sort_values_asc(t) == IF t = << >> THEN << >>
                      ELSE InsertAsc(sort_values_asc(SubSeq(t, 1, Len(t) - 1)), t[Len(t)])

RECURSIVE sort_values_desc(_)
\* sort_values(by="Timestamp", ascending=False); equal timestamps keep their order
sort_values_desc(t) == IF t = << >> THEN << >>
                       ELSE InsertDesc(sort_values_desc(SubSeq(t, 1, Len(t) - 1)), t[Len(t)])

HasEmptyId(t) == \E i \in 1..Len(t) : t[i].Id = << >>

\* what load_data returns (df), what it writes to the sidebar (msg), and the
\* return statement it leaves by (path)
load_data_body(raises, h, rws) ==
    LET df == conn_read(raises, h, rws)
        kept == dropna_Timestamp(Indexed(df.data))
        conv == ConvertAll(kept)
    IN  IF df.raised
        THEN [df |-> << >>, msg |-> {"traceback"}, path |-> "read_error"]
        ELSE IF df_empty(df)
        THEN [df |-> << >>, msg |-> {"empty_read"}, path |-> "empty"]
        ELSE IF missing_cols(df) # {}
        THEN [df |-> << >>, msg |-> {}, path |-> "schema"]
        ELSE IF astype_int_raises(kept)
        THEN [df |-> << >>, msg |-> {"traceback"}, path |-> "proc_error"]
        ELSE [df |-> sort_values_desc(conv),
              msg |-> IF HasEmptyId(conv) THEN {"empty_id"} ELSE {},
              path |-> "ok"]

(***************************************************************************)
(* The st.cache_data entry of load_data.                                   *)
(***************************************************************************)
NoEntry == [present |-> FALSE, df |-> << >>, msg |-> {}, age |-> 0]

\* mutant of cache_hit: an entry that never expires (ttl left out)
cache_hit_no_ttl(c) == c.present

\* an entry is served while it is younger than the ttl
cache_hit(c) == c.present /\ c.age < DATA_CACHE_TTL_SECONDS

\* st.cache_data.clear()
cache_data_clear == NoEntry

(***************************************************************************)
(* Occupancy: the figures column 1 shows for filtered_df.                  *)
(***************************************************************************)
RECURSIVE value_counts(_)
\* Series.value_counts(): the distinct values with their number of rows
value_counts(t) ==
    IF t = << >> THEN << >>
    ELSE LET rest == value_counts(Tail(t))
             x == Head(t).Id
             k == {i \in 1..Len(rest) : rest[i].id = x}
         IN  IF k = {} THEN Append(rest, [id |-> x, n |-> 1])
             ELSE [i \in 1..Len(rest) |->
                      IF i \in k THEN [id |-> x, n |-> rest[i].n + 1] ELSE rest[i]]

id_counts == value_counts(filtered_df)

\* mutant of IsOdd: the comparison inverted
IsOdd_inverted(n) == n % 2 = 0

\* (id_counts % 2 != 0)
IsOdd(n) == n % 2 # 0

\* (id_counts % 2 == 0)
IsEven(n) == n % 2 = 0

\* the boolean Series (id_counts % 2 != 0) of a frame
inside_mask(t) == LET c == value_counts(t) IN [i \in 1..Len(c) |-> IsOdd(c[i].n)]

\* the boolean Series (id_counts % 2 == 0) of a frame
outside_mask(t) == LET c == value_counts(t) IN [i \in 1..Len(c) |-> IsEven(c[i].n)]

\* Series.sum() of a boolean Series
mask_sum(m) == Cardinality({i \in DOMAIN m : m[i]})

time_in_count == mask_sum(inside_mask(filtered_df))

\* mutant of time_out_count: everybody seen at least twice
time_out_count_twice == Cardinality({i \in 1..Len(id_counts) : id_counts[i].n >= 2})

time_out_count == mask_sum(outside_mask(filtered_df))

\* len(id_counts), the "Total Unique Persons" metric
total_unique == Len(id_counts)

(***************************************************************************)
(* archive_and_clear: the gspread calls in order; fault names the call     *)
(* that fails ("none": every call succeeds).  A failure of the bold        *)
(* formatting is swallowed and changes nothing.                            *)
(***************************************************************************)
ArchiveFaults == {"none", "auth", "open", "worksheets", "not_found_read", "read", "add",
                  "write", "not_found_clear", "row_values", "clear", "update"}

\* mutant of archive_and_clear_body: the handlers of step 7 do not re-raise, so
\* steps 8 and 9 run after a failed clearing or header rewrite
archive_and_clear_body_no_reraise(fault, h, rws, arch) ==
    LET same(o, a) == [header |-> h, rows |-> rws, archived |-> a, reset |-> FALSE, outcome |-> o]
        data_to_archive == (IF h = << >> THEN << >> ELSE << h >>) \o rws
        header_values == h
    IN  IF fault = "auth" THEN same("auth_failed", arch)
        ELSE IF fault \in {"open", "worksheets"} THEN same("error", arch)
        ELSE IF arch THEN same("exists", arch)
        ELSE IF fault = "not_found_read" THEN same("not_found", arch)
        ELSE IF fault = "read" THEN same("error", arch)
        ELSE IF data_to_archive = << >> THEN same("empty", arch)
        ELSE IF fault = "add" THEN same("error", arch)
        ELSE IF fault = "write" THEN same("error", TRUE)
        ELSE IF fault \in {"not_found_clear", "row_values"}
        THEN [header |-> h, rows |-> rws, archived |-> TRUE, reset |-> TRUE, outcome |-> "error"]
        ELSE IF header_values = << >> THEN same("no_header", TRUE)
        ELSE IF fault = "clear"
        THEN [header |-> h, rows |-> rws, archived |-> TRUE, reset |-> TRUE, outcome |-> "error"]
        ELSE IF fault = "update"
        THEN [header |-> << >>, rows |-> << >>, archived |-> TRUE, reset |-> TRUE,
              outcome |-> "error"]
        ELSE [header |-> header_values, rows |-> << >>, archived |-> TRUE, reset |-> TRUE,
              outcome |-> "done"]

\* the state archive_and_clear leaves: Sheet1, the archive sheet, whether steps
\* 8 and 9 ran (reset), and the way it returned (outcome)
archive_and_clear_body(fault, h, rws, arch) ==
    LET same(o, a) == [header |-> h, rows |-> rws, archived |-> a, reset |-> FALSE, outcome |-> o]
        data_to_archive == (IF h = << >> THEN << >> ELSE << h >>) \o rws
        header_values == h
    IN  IF fault = "auth" THEN same("auth_failed", arch)
        ELSE IF fault \in {"open", "worksheets"} THEN same("error", arch)
        ELSE IF arch THEN same("exists", arch)
        ELSE IF fault = "not_found_read" THEN same("not_found", arch)
        ELSE IF fault = "read" THEN same("error", arch)
        ELSE IF data_to_archive = << >> THEN same("empty", arch)
        ELSE IF fault = "add" THEN same("error", arch)
        ELSE IF fault \in {"write", "not_found_clear", "row_values"} THEN same("error", TRUE)
        ELSE IF header_values = << >> THEN same("no_header", TRUE)
        ELSE IF fault = "clear" THEN same("error", TRUE)
        ELSE IF fault = "update"
        THEN [header |-> << >>, rows |-> << >>, archived |-> TRUE, reset |-> FALSE,
              outcome |-> "error"]
        ELSE [header |-> header_values, rows |-> << >>, archived |-> TRUE, reset |-> TRUE,
              outcome |-> "done"]

(***************************************************************************)
(* The rows the badge readers append to Sheet1 in Spec.                    *)
(***************************************************************************)
Id42 == TextCell(<< "4", "2" >>)

GoodRow == [ts |-> DateCell(1), gate |-> NumCell(3), id |-> Id42]
NaTRow == [ts |-> TextCell(Junk), gate |-> NumCell(3), id |-> Id42]
InfRow == [ts |-> DateCell(2), gate |-> InfCell, id |-> Id42]

RawRows == {GoodRow, NaTRow, InfRow}

Tables(S, n) == UNION {[1..k -> S] : k \in 0..n}

(***************************************************************************)
(* The gate location map of column 3.                                      *)
(***************************************************************************)
gate_coordinates == [g \in 2..8 |->
    CASE g = 2 -> << 360, 100 >>
      [] g = 3 -> << 400, 260 >>
      [] g = 4 -> << 100, 230 >>
      [] g = 5 -> << 570, 1060 >>
      [] g = 6 -> << 560, 1120 >>
      [] g = 7 -> << 155, 1050 >>
      [] g = 8 -> << 150, 975 >>]

\* 'last_refresh' not in st.session_state
NoRefresh == [set |-> FALSE, at |-> 0]

\* the test "it's a new entry" on the latest event of a frame
add_point(df, lr) ==
    /\ df # << >>
    /\ df[1].Timestamp > lr.at - NEW_ENTRY_WINDOW_SECONDS
    /\ df[1].Gate \in DOMAIN gate_coordinates

\* the point appended for the latest event of a frame
new_point(df, t) == [gate |-> df[1].Gate,
                     coordinates |-> gate_coordinates[df[1].Gate],
                     created_at |-> t]

\* mutant of prune: points are removed a second later
prune_late(points, t) ==
    SelectSeq(points, LAMBDA p : t - p.created_at <= POINT_LIFETIME_SECONDS + 1)

\* "Remove points older than 1 second"
prune(points, t) == SelectSeq(points, LAMBDA p : t - p.created_at <= POINT_LIFETIME_SECONDS)

(***************************************************************************)
(* Actions.                                                                *)
(***************************************************************************)
Init ==
    /\ header = FullHeader
    /\ rows = << >>
    /\ archived = FALSE
    /\ cache = NoEntry
    /\ filtered_df = << >>
    /\ sidebar = {}
    /\ has_inside_ids = FALSE
    /\ now = 0
    /\ last_refresh = NoRefresh
    /\ gate_points = << >>
    /\ appended = FALSE
    /\ points_for_df = 0
    /\ fetch = "none"
    /\ callback = "none"
    /\ rerun_of = "none"
    /\ dirty = TRUE

\* one second passes
Tick ==
    /\ now < MaxClock
    /\ now' = now + 1
    /\ cache' = IF cache.present /\ cache.age < DATA_CACHE_TTL_SECONDS
                THEN [cache EXCEPT !.age = @ + 1]
                ELSE cache
    /\ fetch' = "none"
    /\ rerun_of' = "none"
    /\ appended' = FALSE
    /\ UNCHANGED << header, rows, archived, filtered_df, sidebar, has_inside_ids, callback, dirty,
                    last_refresh, gate_points, points_for_df >>

\* a badge reader appends a row to Sheet1
AppendRow(r) ==
    /\ Len(rows) < MaxRows
    /\ rows' = Append(rows, r)
    /\ dirty' = TRUE
    /\ fetch' = "none"
    /\ rerun_of' = "none"
    /\ appended' = FALSE
    /\ UNCHANGED << header, archived, cache, filtered_df, sidebar, has_inside_ids, callback,
                    now, last_refresh, gate_points, points_for_df >>

\* somebody edits row 1 of Sheet1
EditHeader(h) ==
    /\ h # header
    /\ header' = h
    /\ dirty' = TRUE
    /\ fetch' = "none"
    /\ rerun_of' = "none"
    /\ appended' = FALSE
    /\ UNCHANGED << rows, archived, cache, filtered_df, sidebar, has_inside_ids, callback,
                    now, last_refresh, gate_points, points_for_df >>

\* the date changes: no sheet has today's archive name
NewDay ==
    /\ archived
    /\ archived' = FALSE
    /\ fetch' = "none"
    /\ rerun_of' = "none"
    /\ appended' = FALSE
    /\ UNCHANGED << header, rows, cache, filtered_df, sidebar, has_inside_ids, callback, dirty,
                    now, last_refresh, gate_points, points_for_df >>

\* what load_data() gives one script run through st.cache_data, and the entry
\* the cache holds afterwards
loaded(raises) ==
    LET res == load_data_body(raises, header, rows)
    IN  IF cache_hit(cache)
        THEN [df |-> cache.df, msg |-> cache.msg, path |-> "hit", entry |-> cache]
        ELSE [df |-> res.df, msg |-> res.msg, path |-> res.path,
              entry |-> [present |-> TRUE, df |-> res.df, msg |-> res.msg, age |-> 0]]

\* one run of the script: the session state initialised, filtered_df =
\* load_data(), the gate point of the latest entry, the old points removed.
\* The run is taken to last less than a second: every datetime.now() in it is now.
Run(raises) ==
    LET ld == loaded(raises)
        lr == IF last_refresh.set THEN last_refresh ELSE [set |-> TRUE, at |-> now]
        add == add_point(ld.df, lr)
        points == IF add THEN Append(gate_points, new_point(ld.df, now)) ELSE gate_points
    IN  /\ Len(prune(points, now)) <= MaxPoints
        /\ filtered_df' = ld.df
        /\ sidebar' = ld.msg
        /\ fetch' = ld.path
        /\ cache' = ld.entry
        /\ dirty' = IF ld.path \in {"ok", "empty"} THEN FALSE ELSE dirty
        /\ has_inside_ids' = TRUE
        /\ last_refresh' = IF add THEN [set |-> TRUE, at |-> now] ELSE lr
        /\ gate_points' = prune(points, now)
        /\ appended' = add
        /\ points_for_df' = IF ld.df = filtered_df
                            THEN (IF add /\ points_for_df < 2 THEN points_for_df + 1
                                  ELSE points_for_df)
                            ELSE (IF add THEN 1 ELSE 0)
        /\ rerun_of' = callback
        /\ callback' = "none"
        /\ UNCHANGED << header, rows, archived, now >>

\* mutant of force_reload: the session state reset without st.cache_data.clear()
force_reload_no_clear ==
    /\ callback = "none"
    /\ last_refresh.set
    /\ has_inside_ids' = FALSE
    /\ callback' = "force"
    /\ fetch' = "none"
    /\ rerun_of' = "none"
    /\ appended' = FALSE
    /\ UNCHANGED << header, rows, archived, cache, filtered_df, sidebar, dirty,
                    now, last_refresh, gate_points, points_for_df >>

\* the "Refresh Data Now" button
force_reload ==
    /\ callback = "none"
    /\ last_refresh.set
    /\ cache' = cache_data_clear
    /\ has_inside_ids' = FALSE
    /\ callback' = "force"
    /\ dirty' = TRUE
    /\ fetch' = "none"
    /\ rerun_of' = "none"
    /\ appended' = FALSE
    /\ UNCHANGED << header, rows, archived, filtered_df, sidebar,
                    now, last_refresh, gate_points, points_for_df >>

\* the "Archive Today's Attendance" button
archive_and_clear(fault) ==
    LET a == archive_and_clear_body(fault, header, rows, archived)
    IN  /\ callback = "none"
        /\ last_refresh.set
        /\ header' = a.header
        /\ rows' = a.rows
        /\ archived' = a.archived
        /\ cache' = IF a.reset THEN cache_data_clear ELSE cache
        /\ has_inside_ids' = IF a.reset THEN FALSE ELSE has_inside_ids
        /\ callback' = a.outcome
        /\ dirty' = (dirty \/ a.reset \/ a.header # header \/ a.rows # rows)
        /\ gate_points' = IF a.reset THEN << >> ELSE gate_points
        /\ fetch' = "none"
        /\ rerun_of' = "none"
        /\ appended' = FALSE
        /\ UNCHANGED << filtered_df, sidebar, now, last_refresh, points_for_df >>

Next ==
    \/ Tick
    \/ \E r \in RawRows : AppendRow(r)
    \/ \E h \in {FullHeader, NoNameHeader} : EditHeader(h)
    \/ NewDay
    \/ \E raises \in BOOLEAN : Run(raises)
    \/ force_reload
    \/ \E fault \in ArchiveFaults : archive_and_clear(fault)

Spec == Init /\ [][Next]_vars

(***************************************************************************)
(* Two parts of Spec, each with every handler whole.  SpecDay is a day of  *)
(* the dashboard on which nobody archives.  SpecArchive is the archiving,  *)
(* the reruns and the edits of the sheet that happen within one second.    *)
(***************************************************************************)
NextDay ==
    \/ Tick
    \/ \E r \in RawRows : AppendRow(r)
    \/ \E h \in {FullHeader, NoNameHeader} : EditHeader(h)
    \/ \E raises \in BOOLEAN : Run(raises)
    \/ force_reload

SpecDay == Init /\ [][NextDay]_vars

NextArchive ==
    \/ \E r \in RawRows : AppendRow(r)
    \/ \E h \in {FullHeader, NoNameHeader} : EditHeader(h)
    \/ NewDay
    \/ \E raises \in BOOLEAN : Run(raises)
    \/ force_reload
    \/ \E fault \in ArchiveFaults : archive_and_clear(fault)

SpecArchive == Init /\ [][NextArchive]_vars

(***************************************************************************)
(* The gate location map on its own: Sheet1 holds events at gates on and   *)
(* off the map, some older than the dashboard session, and stays as it is  *)
(* while the script reruns.                                                *)
(***************************************************************************)
\* an event ten seconds before the session starts, at a gate on the map
OldRow == [ts |-> DateCell(0 - NEW_ENTRY_WINDOW_SECONDS), gate |-> NumCell(3), id |-> Id42]
\* an event five seconds before the session starts, at a gate on the map
FadingRow == [ts |-> DateCell(0 - 5), gate |-> NumCell(8), id |-> Id42]
\* events in the first seconds of the session at gates off the map: gate 9,
\* gate 1 and a gate cell that is no number (Gate No. 0)
Gate9Row == [ts |-> DateCell(2), gate |-> NumCell(9), id |-> Id42]
Gate1Row == [ts |-> DateCell(1), gate |-> NumCell(1), id |-> Id42]
JunkGateRow == [ts |-> DateCell(2), gate |-> TextCell(Junk), id |-> Id42]

RawRowsMap == {GoodRow, OldRow, FadingRow, Gate9Row, Gate1Row, JunkGateRow}

InitMap ==
    /\ header = FullHeader
    /\ rows \in Tables(RawRowsMap, MaxRows)
    /\ archived = FALSE
    /\ cache = NoEntry
    /\ filtered_df = << >>
    /\ sidebar = {}
    /\ has_inside_ids = FALSE
    /\ now = 0
    /\ last_refresh = NoRefresh
    /\ gate_points = << >>
    /\ appended = FALSE
    /\ points_for_df = 0
    /\ fetch = "none"
    /\ callback = "none"
    /\ rerun_of = "none"
    /\ dirty = TRUE

NextMap ==
    \/ Tick
    \/ \E raises \in BOOLEAN : Run(raises)
    \/ force_reload

SpecMap == InitMap /\ [][NextMap]_vars

(***************************************************************************)
(* load_data on its own: any table with the required columns, read by one  *)
(* script run.                                                             *)
(***************************************************************************)
Chars42 == << "4", "2" >>
Chars123456 == << "1", "2", "3", "4", "5", "6" >>

RawRowsLoad ==
    { [ts |-> DateCell(1), gate |-> NumCell(3), id |-> TextCell(Chars42)],
      [ts |-> DateCell(2), gate |-> TextCell(Junk), id |-> TextCell(Chars42)],
      [ts |-> TextCell(Junk), gate |-> NumCell(3), id |-> TextCell(Chars42)],
      [ts |-> DateCell(2), gate |-> InfCell, id |-> TextCell(Chars42)],
      [ts |-> NanCell, gate |-> InfCell, id |-> TextCell(Chars42)],
      [ts |-> DateCell(1), gate |-> NanCell, id |-> TextCell(<< " ", " " >> \o Chars42 \o << " " >>)],
      [ts |-> DateCell(2), gate |-> NumCell(5), id |-> FloatCell(42)],
      [ts |-> DateCell(1), gate |-> NumCell(3), id |-> TextCell(Chars123456 \o << ".", "0" >>)],
      [ts |-> DateCell(2), gate |-> NumCell(3), id |-> TextCell(Chars123456 \o << ".", "5", "0" >>)],
      [ts |-> DateCell(3), gate |-> FloatCell(4), id |-> TextCell(<< ".", "0" >>)] }

InitLoad ==
    /\ header = FullHeader
    /\ rows \in Tables(RawRowsLoad, MaxTable)
    /\ archived = FALSE
    /\ cache = NoEntry
    /\ filtered_df = << >>
    /\ sidebar = {}
    /\ has_inside_ids = FALSE
    /\ now = 0
    /\ last_refresh = NoRefresh
    /\ gate_points = << >>
    /\ appended = FALSE
    /\ points_for_df = 0
    /\ fetch = "none"
    /\ callback = "none"
    /\ rerun_of = "none"
    /\ dirty = TRUE

NextLoad == \E raises \in BOOLEAN : Run(raises)

SpecLoad == InitLoad /\ [][NextLoad]_vars

(***************************************************************************)
(* Claims about load_data and the occupancy figures, checked under         *)
(* SpecLoad.                                                               *)
(***************************************************************************)
\* a script run has just executed the body of load_data on the sheet
Executed == fetch \notin {"none", "hit"}

\* the index labels of the rows whose Timestamp parses
Parsed == {i \in 1..Len(rows) : rows[i].ts.k = "date"}

Srcs(t) == {t[k].src : k \in 1..Len(t)}

\* the number of events of identity x in a frame
Occurrences(t, x) == Cardinality({k \in 1..Len(t) : t[k].Id = x})

\* identity x adds one to time_in_count / time_out_count of a frame
CountedInside(t, x) == \E i \in 1..Len(value_counts(t)) :
                           value_counts(t)[i].id = x /\ inside_mask(t)[i]

CountedOutside(t, x) == \E i \in 1..Len(value_counts(t)) :
                            value_counts(t)[i].id = x /\ outside_mask(t)[i]

IdUniverse == {id_series_cleaned(r.id) : r \in RawRowsLoad} \cup {<< "z" >>}

\* C2: for every frame load_data returns, time_in_count + time_out_count equals
\* len(id_counts), both counts are >= 0, and every identity in id_counts occurs
\* at least once in the frame (and occurs in id_counts once).
C2_CountsAddUp ==
    /\ time_in_count + time_out_count = total_unique
    /\ time_in_count >= 0 /\ time_out_count >= 0
    /\ \A i \in 1..Len(id_counts) :
          /\ id_counts[i].n > 0
          /\ id_counts[i].n = Occurrences(filtered_df, id_counts[i].id)
          /\ \A j \in 1..Len(id_counts) : id_counts[j].id = id_counts[i].id => j = i

C2_Witness ==
    /\ fetch = "ok"
    /\ time_in_count >= 1
    /\ time_out_count >= 1
    /\ total_unique = 2
    /\ Len(filtered_df) = 3

\* C3: an identity is counted inside iff its number of events is odd, outside
\* iff it is even and not zero (one event: inside, two events: outside), and one
\* more event of an identity moves it to the other count.
C3_ParityRule ==
    \A x \in IdUniverse :
        LET n == Occurrences(filtered_df, x)
            more == Append(filtered_df, [Timestamp |-> 0, Gate |-> 0, Id |-> x, src |-> 0])
        IN  /\ CountedInside(filtered_df, x) <=> (n % 2 = 1)
            /\ CountedOutside(filtered_df, x) <=> (n % 2 = 0 /\ n > 0)
            /\ n = 1 => CountedInside(filtered_df, x) /\ ~CountedOutside(filtered_df, x)
            /\ n = 2 => CountedOutside(filtered_df, x) /\ ~CountedInside(filtered_df, x)
            /\ CountedInside(more, x) <=> ~CountedInside(filtered_df, x)
            /\ CountedOutside(more, x) <=> (n > 0 /\ ~CountedOutside(filtered_df, x))

C3_Witness ==
    /\ fetch = "ok"
    /\ \E x \in IdUniverse : Occurrences(filtered_df, x) = 1 /\ CountedInside(filtered_df, x)
    /\ \E x \in IdUniverse : Occurrences(filtered_df, x) = 2 /\ CountedOutside(filtered_df, x)

\* C7: for every table with the required columns that load_data reads, the
\* frame returned holds exactly the rows whose Timestamp parsed, and a retained
\* row whose Gate No. is not a number or is missing has gate 0.
C7_RowsKept ==
    (Executed /\ fetch # "read_error" /\ Cols(header) = Cols(required_cols)) =>
        /\ Srcs(filtered_df) = Parsed
        /\ Len(filtered_df) = Cardinality(Parsed)
        /\ \A k \in 1..Len(filtered_df) :
              rows[filtered_df[k].src].gate.k \in {"text", "nan"} => filtered_df[k].Gate = 0

\* what does hold: unless astype(int) raised, exactly the parsed rows are kept
C7_RowsKeptUnlessCastRaises ==
    fetch = "ok" =>
        /\ Srcs(filtered_df) = Parsed
        /\ Len(filtered_df) = Cardinality(Parsed)
        /\ \A k \in 1..Len(filtered_df) :
              rows[filtered_df[k].src].gate.k \in {"text", "nan"} => filtered_df[k].Gate = 0

\* C8: a frame load_data returns is sorted by Timestamp, latest first, row 0 is
\* the latest parsed event of the sheet, and a table none of whose timestamps
\* parse gives an empty frame by the normal return, with no traceback.
C8_SortedDescending ==
    /\ \A k \in 1..(Len(filtered_df) - 1) :
          filtered_df[k].Timestamp >= filtered_df[k + 1].Timestamp
    /\ (fetch = "ok" /\ filtered_df # << >>) =>
          \A i \in Parsed : filtered_df[1].Timestamp >= rows[i].ts.v[1]
    /\ (Executed /\ fetch # "read_error" /\ rows # << >> /\ Parsed = {}) =>
          (fetch = "ok" /\ filtered_df = << >> /\ "traceback" \notin sidebar)

\* the sort moved a later row of the sheet to the front
C8_Witness ==
    /\ fetch = "ok"
    /\ Len(filtered_df) = 3
    /\ filtered_df[1].src = 3
    /\ filtered_df[1].Timestamp > filtered_df[2].Timestamp
    /\ filtered_df[2].Timestamp > filtered_df[3].Timestamp

\* the text between the surrounding blanks of s
IsStripOf(m, s) ==
    \E a \in 0..Len(s) : \E b \in 0..(Len(s) - a) :
        /\ \A i \in 1..a : s[i] = " "
        /\ \A i \in (Len(s) - b + 1)..Len(s) : s[i] = " "
        /\ m = SubSeq(s, a + 1, Len(s) - b)
        /\ (m # << >> => (m[1] # " " /\ m[Len(m)] # " "))

EndsWithDot0(m) == Len(m) >= 2 /\ SubSeq(m, Len(m) - 1, Len(m)) = << ".", "0" >>

RawId(k) == rows[filtered_df[k].src].id

\* C9: the Identification No. of every row kept is the string form of the raw
\* value without its surrounding blanks and without one trailing ".0", and
\* nothing else changes: "123456.0" gives "123456", "123456.50" stays, "  42 "
\* gives "42", the float 42.0 gives "42"; a row whose identifier comes out
\* empty is kept with the empty string.
C9_IdNormalized ==
    fetch = "ok" =>
        /\ Srcs(filtered_df) = Parsed
        /\ \A k \in 1..Len(filtered_df) :
              LET out == filtered_df[k].Id
                  raw == RawId(k)
              IN  /\ \E m \in {SubSeq(astype_str(raw), a, b) :
                                  a \in 1..(Len(astype_str(raw)) + 1), b \in 0..Len(astype_str(raw))} :
                        /\ IsStripOf(m, astype_str(raw))
                        /\ out = IF EndsWithDot0(m) THEN SubSeq(m, 1, Len(m) - 2) ELSE m
                  /\ raw = TextCell(Chars123456 \o << ".", "0" >>) => out = Chars123456
                  /\ raw = TextCell(Chars123456 \o << ".", "5", "0" >>)
                        => out = Chars123456 \o << ".", "5", "0" >>
                  /\ raw = TextCell(<< " ", " " >> \o Chars42 \o << " " >>) => out = Chars42
                  /\ raw = FloatCell(42) => out = Chars42
                  /\ raw = TextCell(<< ".", "0" >>) => out = << >>

C9_Witness ==
    /\ fetch = "ok"
    /\ \E k \in 1..Len(filtered_df) :
          RawId(k) = TextCell(<< ".", "0" >>) /\ filtered_df[k].Id = << >>
    /\ \E k \in 1..Len(filtered_df) :
          RawId(k) = TextCell(Chars123456 \o << ".", "0" >>) /\ filtered_df[k].Id = Chars123456
    /\ \E k \in 1..Len(filtered_df) :
          RawId(k) = TextCell(Chars123456 \o << ".", "5", "0" >>)
    /\ "empty_id" \in sidebar

(***************************************************************************)
(* Claims about the cache and the callbacks, checked under SpecDay (C1,    *)
(* C4, C5, C6) and SpecArchive (C10, C11).                                 *)
(***************************************************************************)
\* C1: a script run whose fetch raises while the cache holds a loaded,
\* non-empty event sequence leaves the dashboard and the cache with that
\* sequence.
C1_FailedFetchKeepsData ==
    [][(fetch' \in {"read_error", "proc_error"} /\ cache.present /\ cache.df # << >>)
          => (filtered_df' = cache.df /\ cache'.df = cache.df)]_vars

C5_SchemaErrorSurfaced ==
    fetch = "schema" =>
        \A t \in Tables(RawRows, MaxRows) :
            LET r == load_data_body(FALSE, FullHeader, t)
            IN  (r.path \in {"ok", "empty"} /\ r.df = << >>)
                    => << r.df, r.msg >> # << filtered_df, sidebar >>

\* C6: the script run that follows force_reload executes load_data (a fetch of
\* Sheet1), whatever the age of the entry before and however the last fetch
\* ended.
C6_ForceFetches == rerun_of = "force" => Executed

C6_Witness ==
    /\ rerun_of = "force"
    /\ fetch = "ok"
    /\ filtered_df # << >>

\* C10: archive_and_clear, however it returns, leaves row 1 of Sheet1 as it was.
C10_HeaderKept ==
    [][(callback = "none" /\ callback' \notin {"none", "force"}) => header' = header]_vars

\* C11: archive_and_clear clears the data cache, deletes inside_ids and empties
\* gate_points only when it returns after Sheet1 was cleared and its header
\* written back; however else it returns (authentication failed, the archive
\* sheet exists, Sheet1 empty or not found, no header retrieved, an API or
\* other exception), the cache, inside_ids and gate_points are as before.
C11_ResetOnlyAfterClear ==
    [][(callback = "none" /\ callback' \notin {"none", "force"}) =>
          IF callback' = "done"
          THEN /\ rows' = << >>
               /\ header' = header
               /\ header # << >>
               /\ cache' = NoEntry
               /\ ~has_inside_ids'
               /\ gate_points' = << >>
          ELSE /\ cache' = cache
               /\ has_inside_ids' = has_inside_ids
               /\ gate_points' = gate_points
      ]_vars

\* an archive that failed after Sheet1 was cleared, with the cached events,
\* inside_ids and the gate points still there
C11_Witness ==
    /\ callback = "error"
    /\ rows = << >>
    /\ header = << >>
    /\ cache.present
    /\ cache.df # << >>
    /\ has_inside_ids
    /\ gate_points # << >>

(***************************************************************************)
(* Claims about the gate location map, checked under SpecMap.              *)
(***************************************************************************)
\* C12: while the script reruns load the same event sequence, its latest event
\* gets at most one gate point.
C12_OnePointPerEntry == points_for_df <= 1

\* C13: after the pruning of a script run every point of gate_points was
\* created at most POINT_LIFETIME_SECONDS before, at a gate of gate_coordinates
\* (2 to 8) and with that gate's coordinates; and a step that changes
\* last_refresh is a script run that appends a point.
C13_PointsFreshAndPlaced ==
    [][/\ fetch' # "none" =>
            \A i \in DOMAIN gate_points' :
                LET p == gate_points'[i]
                IN  /\ now' - p.created_at <= POINT_LIFETIME_SECONDS
                    /\ p.gate \in 2..8
                    /\ p.gate \in DOMAIN gate_coordinates
                    /\ p.coordinates = gate_coordinates[p.gate]
       /\ (last_refresh.set /\ last_refresh' # last_refresh) => (fetch' # "none" /\ appended')
      ]_vars

\* a run that kept a point one second old, appended none and left last_refresh
C13_Witness ==
    /\ fetch # "none"
    /\ ~appended
    /\ gate_points # << >>
    /\ \E i \in DOMAIN gate_points : now - gate_points[i].created_at = POINT_LIFETIME_SECONDS
    /\ last_refresh.at < now

====
